---------------------------- MODULE Spec2Model ----------------------------
(***************************************************************************)
(* thr2pxl: a mesh rendered as GPGPU-driven points.                        *)
(*                                                                         *)
(* The model follows one instance of the core application (Main, Runner,   *)
(* Model, Pointer, FlowFieldManager, GpGpuManager and the GPGPU fragment   *)
(* shader).  Floats are fixed-point integers in units of 1/ONE; texel UV   *)
(* coordinates are exact fractions <<numerator, denominator>>.  Typed      *)
(* arrays are zero-based functions.                                        *)
(***************************************************************************)
EXTENDS Integers, Sequences, FiniteSets, TLC

(***************************************************************************)
(* Fixed point and bounds                                                  *)
(***************************************************************************)

\* The GLSL literal 1.0 (life threshold), the unit of the fixed-point scale.
ONE == 100

\* Greatest vertex count of a loaded mesh.
MaxVertices == 5

\* Greatest seed of the Math.random() stream.
MaxSeed == 1

\* Elapsed time (fixed point) after which no frame advances the timer.
MaxElapsed == 400

\* The count of compute steps is kept up to here.
MaxSteps == 3

\* Frame deltas handed out by the timer (0, 1.0, 2.0 seconds).
DeltaTimes == {0, 100, 200}

\* Configured point life decays (0, 0.5, 1.0).
LifeDecays == {0, 50, 100}

\* part_014:18,24,30  DEFAULT_FREQUENCY 0.1, DEFAULT_STRENGTH 3, DEFAULT_RATIO 0.25
DEFAULT_FREQUENCY == ONE \div 10
DEFAULT_STRENGTH == 3 * ONE
DEFAULT_RATIO == ONE \div 4

\* part_012:32
TEXEL_GROUP_SIZE == 4

\* runner.ts:314  the coordinate of the "no intersection" pointer position
SENTINEL == -99999

FMul(a, b) == (a * b) \div ONE

Min(a, b) == IF a < b THEN a ELSE b
Max(a, b) == IF a > b THEN a ELSE b

\* Math.ceil(Math.sqrt(n)) for an integer n >= 0
CeilSqrt(n) == CHOOSE s \in 0..n : s * s >= n /\ (s = 0 \/ (s - 1) * (s - 1) < n)

\* floor(sqrt(n)) by Newton's iteration
RECURSIVE SqrtFrom(_, _)
SqrtFrom(n, s) == IF s * s <= n THEN s ELSE SqrtFrom(n, (s + n \div s) \div 2)

\* the iteration starts above the root and within the integers
FloorSqrt(n) ==
  IF n = 0 THEN 0 ELSE SqrtFrom(n, IF n < 40000 THEN n ELSE 40000)

(***************************************************************************)
(* The mesh handed over by the loader and AbstractEntity.load              *)
(***************************************************************************)

\* Vertex i of the loaded mesh: the corners of the unit lattice, so that the
\* four-vertex mesh is (0,0,0) (1,0,0) (0,1,0) (1,1,0).  A flat array of 3n.
RawMesh(n) ==
  [j \in 0..(3 * n - 1) |->
     LET i == j \div 3
         c == j % 3
     IN  IF c = 0 THEN (i % 2) * ONE
         ELSE IF c = 1 THEN ((i \div 2) % 2) * ONE
         ELSE (i \div 4) * ONE]

Count(array, itemSize) == Cardinality(DOMAIN array) \div itemSize

\* geometry.center(): translate by minus the centre of the bounding box
Center(array) ==
  LET n == Count(array, 3)
      Comp(c) == {array[3 * i + c] : i \in 0..(n - 1)}
      Lo(c) == CHOOSE m \in Comp(c) : \A x \in Comp(c) : m <= x
      Hi(c) == CHOOSE m \in Comp(c) : \A x \in Comp(c) : m >= x
      \* the centre of an empty bounding box is the origin
      Mid(c) == IF n = 0 THEN 0 ELSE (Lo(c) + Hi(c)) \div 2
  IN  [j \in DOMAIN array |-> array[j] - Mid(j % 3)]

\* Math.random(): a stream of values in [0, 1), one per draw
Random(seed, k) == ((seed + 3 * k) % 4) * (ONE \div 4)

(***************************************************************************)
(* FlowFieldManager.init: texel data and texel UV                          *)
(***************************************************************************)

\* GenerateTexelData with the y and z of a vertex exchanged
GenerateTexelData_SwapYZ(position, seed) ==
  [j \in 0..(4 * Count(position, 3) - 1) |->
     LET i == j \div 4
         c == j % 4
     IN  IF c = 0 THEN position[3 * i]
         ELSE IF c = 1 THEN position[3 * i + 2]
         ELSE IF c = 2 THEN position[3 * i + 1]
         ELSE Random(seed, i)]

\* #generateTexelDataFromVertex, for every i of the loop: 4 floats per vertex
GenerateTexelData(position, seed) ==
  [j \in 0..(4 * Count(position, 3) - 1) |->
     LET i == j \div 4
         c == j % 4
     IN  IF c < 3 THEN position[3 * i + c] ELSE Random(seed, i)]

\* #generateTexelUvFromVertex: u and v of vertex i as exact fractions
TexelU(i, size) == <<2 * (i % size) + 1, 2 * size>>
TexelV(i, size) == <<2 * (i \div size) + 1, 2 * size>>

GenerateTexelUv(vertices, size) ==
  [j \in 0..(2 * vertices - 1) |->
     IF j % 2 = 0 THEN TexelU(j \div 2, size) ELSE TexelV(j \div 2, size)]

(***************************************************************************)
(* GpGpuManager.create                                                     *)
(***************************************************************************)

\* #createGpGpuRenderer: the side of the square compute texture
GpGpuSize(texelData) ==
  CeilSqrt(Cardinality(DOMAIN texelData) \div TEXEL_GROUP_SIZE)

\* #createGpGpuVar: createTexture() is a zeroed size*size RGBA float image,
\* imageData.set(texelData) copies the texel data to its start.  An image is
\* held texel by texel: texel k is the floats 4k .. 4k+3 of the image data.
ImageFloat(texelData, j) == IF j \in DOMAIN texelData THEN texelData[j] ELSE 0

CreateTexture(texelData, size) ==
  [k \in 0..(size * size - 1) |->
     <<ImageFloat(texelData, 4 * k), ImageFloat(texelData, 4 * k + 1),
       ImageFloat(texelData, 4 * k + 2), ImageFloat(texelData, 4 * k + 3)>>]

\* create: the renderer and its variable, or the Error thrown when
\* gpGpu.init() returns an error
GpGpuCreate(texelData, error) ==
  IF error
    THEN [thrown |-> TRUE, size |-> 0, image |-> <<>>]
    ELSE [thrown |-> FALSE, size |-> GpGpuSize(texelData),
          image |-> CreateTexture(texelData, GpGpuSize(texelData))]

(***************************************************************************)
(* Texture sampling                                                        *)
(***************************************************************************)

\* The raster index of the texel that texture(sampler, uv) reads from a
\* size x size texture with nearest filtering.
TexelIndex(u, v, size) ==
  LET x == (u[1] * size) \div u[2]
      y == (v[1] * size) \div v[2]
  IN  y * size + x

\* texture(sampler, uv): the four channels of that texel
Texture(image, u, v, size) == image[TexelIndex(u, v, size)]

(***************************************************************************)
(* The GPGPU fragment shader                                               *)
(***************************************************************************)

\* calcSimplexNoise4d(vec4): the include is not part of the sources; a
\* deterministic stand-in with values in [-1, 1] that is never exactly 0.
calcSimplexNoise4d(v) ==
  LET h == ((v[1] \div 25) + 3 * (v[2] \div 25) + 5 * (v[3] \div 25)
            + 7 * (v[4] \div 5)) % 4
  IN  IF h = 0 THEN ONE
      ELSE IF h = 1 THEN -(ONE \div 2)
      ELSE IF h = 2 THEN ONE \div 2
      ELSE -ONE

\* GLSL smoothstep(edge0, edge1, x)
Smoothstep(edge0, edge1, x) ==
  LET t == Max(0, Min(ONE, ((x - edge0) * ONE) \div (edge1 - edge0)))
  IN  FMul(FMul(t, t), 3 * ONE - 2 * t)

\* GLSL normalize(vec3)
Normalize(v) ==
  LET len == FloorSqrt(v[1] * v[1] + v[2] * v[2] + v[3] * v[3])
  IN  <<(v[1] * ONE) \div len, (v[2] * ONE) \div len, (v[3] * ONE) \div len>>

\* IsReset with a strict comparison
IsReset_Strict(life) == life > ONE

\* if (position.a >= 1.0)
IsReset(life) == life >= ONE

\* ResetTexel that leaves position.xyz as it is
ResetTexel_KeepPosition(position, basePosition) ==
  <<position[1], position[2], position[3], 0>>

\* ResetTexel that leaves position.a as it is
ResetTexel_KeepLife(position, basePosition) ==
  <<basePosition[1], basePosition[2], basePosition[3], position[4]>>

\* the reset branch: position.a = 0.0; position.xyz = basePosition.xyz
ResetTexel(position, basePosition) ==
  <<basePosition[1], basePosition[2], basePosition[3], 0>>

\* LifeAdvance with the decay subtracted
LifeAdvance_Minus(life, lifeDecay, deltaTime) ==
  life - FMul(lifeDecay, deltaTime)

\* LifeAdvance without the frame delta
LifeAdvance_NoDelta(life, lifeDecay, deltaTime) == life + lifeDecay

\* position.a += uFlowFieldPointLifeDecay * uDeltaTime
LifeAdvance(life, lifeDecay, deltaTime) == life + FMul(lifeDecay, deltaTime)

\* the flow displacement added to position.xyz in the else branch
FlowDisplacement(position, basePosition, time, deltaTime) ==
  LET t == FMul(time, DEFAULT_FREQUENCY)
      strength ==
        Smoothstep(ONE - 2 * DEFAULT_RATIO, ONE,
                   calcSimplexNoise4d(<<basePosition[1], basePosition[2],
                                        basePosition[3], t>>))
      Sample(o) ==
        calcSimplexNoise4d(<<position[1] + o, position[2] + o,
                             position[3] + o, t>>)
      flowField == Normalize(<<Sample(0), Sample(ONE), Sample(2 * ONE)>>)
      Term(c) == FMul(FMul(FMul(flowField[c], strength), DEFAULT_STRENGTH),
                      deltaTime)
  IN  <<Term(1), Term(2), Term(3)>>

\* main(): the texel written for one fragment
ShaderMain(position, basePosition, time, deltaTime, lifeDecay) ==
  IF IsReset(position[4])
    THEN ResetTexel(position, basePosition)
    ELSE LET d == FlowDisplacement(position, basePosition, time, deltaTime)
         IN  <<position[1] + d[1], position[2] + d[2], position[3] + d[3],
               LifeAdvance(position[4], lifeDecay, deltaTime)>>

\* uv = gl_FragCoord.xy / resolution.xy of the fragment with raster index k
FragU(k, size) == <<2 * (k % size) + 1, 2 * size>>
FragV(k, size) == <<2 * (k \div size) + 1, 2 * size>>

\* One pass of the shader over the whole target: reads textureData and
\* uBaseDataTexture, yields the image written to the target.
ComputePass(textureData, baseData, size, time, deltaTime, lifeDecay) ==
  [k \in 0..(size * size - 1) |->
     LET position == Texture(textureData, FragU(k, size), FragV(k, size), size)
         basePosition == Texture(baseData, FragU(k, size), FragV(k, size), size)
     IN  ShaderMain(position, basePosition, time, deltaTime, lifeDecay)]

\* Which fragments took the reset branch in that pass
ResetPass(textureData, size) ==
  [k \in 0..(size * size - 1) |->
     IsReset(Texture(textureData, FragU(k, size), FragV(k, size), size)[4])]

(***************************************************************************)
(* GPUComputationRenderer: two render targets per variable                 *)
(***************************************************************************)

\* compute(): the target written is the one that is not current
NextTextureIndex(current) == IF current = 0 THEN 1 ELSE 0

(***************************************************************************)
(* Pointer                                                                 *)
(***************************************************************************)

Hit1 == [point |-> <<0, 0, 50>>, distance |-> 100]
Hit2 == [point |-> <<50, 0, 0>>, distance |-> 150]

\* Results of raycaster.intersectObject(mesh): ordered by distance
RayHits == {<<>>, <<Hit1, Hit2>>}

\* #disablePointer: the value written to uPointer
DisabledPointer == <<SENTINEL, SENTINEL, SENTINEL>>

\* PointerUniform taking the last intersection
PointerUniform_Last(hits) ==
  IF Len(hits) # 0 THEN hits[Len(hits)].point ELSE DisabledPointer

\* Runner.update: the value written to uPointer
PointerUniform(hits) ==
  IF Len(hits) # 0 THEN hits[1].point ELSE DisabledPointer

(***************************************************************************)
(* The position_vertex chunk: displacement of a point by the pointer       *)
(***************************************************************************)

\* runner.ts:21,39,45  pointer strength 0.3, pulse strength 0.2, frequency 1
DEFAULT_POINT_SIZE == 5 * ONE

DEFAULT_POINTER_STRENGTH == (3 * ONE) \div 10
DEFAULT_POINTER_PULSE_STRENGTH == ONE \div 5
DEFAULT_POINTER_PULSE_FREQUENCY == ONE

\* Greatest distance at which the falloff is tabulated.
MaxDistance == 450

\* Configured <<minRad, maxRad>>: the defaults (0.5, 2), equal radii, a
\* wide and a reversed pair
RadPairs == {<<50, 200>>, <<100, 100>>, <<100, 400>>, <<200, 100>>}

\* Values of uTime at a draw: 0, pi/2, pi, 3 pi/2
VertexTimes == {0, 157, 314, 471}

\* Positions sampled from the position texture, inside the scene bounds
VertexPositions ==
  {<<0, 0, 0>>, <<0, 0, 50>>, <<0, 0, 100>>, <<0, 0, 250>>, <<0, 100, 50>>,
   <<-50, -50, 0>>, <<300, 0, 50>>}

Abs(x) == IF x < 0 THEN -x ELSE x

\* GLSL length(vec3); a vector with a component beyond 10000 is measured
\* in units of 1000, which keeps the squares within the integers
Length(v) ==
  LET big == \E c \in 1..3 : Abs(v[c]) > 10000
      s == IF big THEN 1000 ELSE 1
      w == [c \in 1..3 |-> v[c] \div s]
  IN  s * FloorSqrt(w[1] * w[1] + w[2] * w[2] + w[3] * w[3])

\* GLSL normalize(vec3) of a vector that is not zero
Direction(v) ==
  [c \in 1..3 |-> (v[c] * ONE) \div Length(v)]

\* normalize of the zero vector is undefined: the outcomes drawn for it
ZeroDirections == {<<0, 0, 0>>, <<ONE, 0, 0>>}

\* GLSL mix(x, y, a) = x * (1 - a) + y * a
Mix(x, y, a) == FMul(x, ONE - a) + FMul(y, a)

\* GLSL sin, by Bhaskara's approximation on [0, pi] and its odd extension
Sin(x) ==
  LET pi == 314
      r == x % (2 * pi)
      Half(y) == (16 * y * (pi - y) * ONE)
                   \div (5 * pi * pi - 4 * y * (pi - y))
  IN  IF r <= pi THEN Half(r) ELSE -Half(r - pi)

\* ClampDistance without the lower clamp
ClampDistance_NoMax(distance, minRad, maxRad) == Min(maxRad, distance)

\* ClampDistance without the upper clamp
ClampDistance_NoMin(distance, minRad, maxRad) == Max(minRad, distance)

\* displacementDistance = min(uPointerMaxRad, max(uPointerMinRad, distance))
ClampDistance(distance, minRad, maxRad) ==
  Min(maxRad, Max(minRad, distance))

\* displacementStrength out of the distance of the point to the pointer
DisplacementStrength(distance, minRad, maxRad) ==
  Mix((ONE * ONE) \div minRad, 0,
      (ClampDistance(distance, minRad, maxRad) * ONE) \div maxRad)

\* The chunk for one vertex: the distance, the strength and the two terms
\* added to vertexPosition.xyz
PositionVertex(vertexPosition, pointer, zeroDirection, minRad, maxRad, time) ==
  LET displacementVector == [c \in 1..3 |-> vertexPosition[c] - pointer[c]]
      distance == Length(displacementVector)
      displacementDirection ==
        IF distance = 0 THEN zeroDirection ELSE Direction(displacementVector)
      displacementStrength == DisplacementStrength(distance, minRad, maxRad)
      repulsion ==
        [c \in 1..3 |->
           FMul(FMul(displacementDirection[c], DEFAULT_POINTER_STRENGTH),
                displacementStrength)]
      pulse ==
        [c \in 1..3 |->
           FMul(FMul(FMul(displacementDirection[c],
                          Sin(FMul(time, DEFAULT_POINTER_PULSE_FREQUENCY))),
                     DEFAULT_POINTER_PULSE_STRENGTH),
                displacementStrength)]
  IN  [distance |-> distance,
       displacementStrength |-> displacementStrength,
       repulsion |-> repulsion,
       pulse |-> pulse,
       vertexPosition |->
         [c \in 1..3 |-> vertexPosition[c] + repulsion[c] + pulse[c]]]

(***************************************************************************)
(* State                                                                   *)
(***************************************************************************)

\* Texture handles: the two render targets of the GPGPU variable and the
\* DataTexture made by createTexture(); NoTexture is a null uniform value.
InitialTexture == 2
NoTexture == -1

VARIABLES
  modelLoad,            \* Model.load(): "pending", "resolved" or "rejected"
  colorCount,           \* count of the color attribute of the loaded mesh
  initError,            \* GPUComputationRenderer.init() returned an error
  compileCalls,         \* calls of RendererManager.compile so far
  loadLog,              \* steps of the continuation of Model.load, in order
  pointerMesh,          \* Pointer.mesh is set
  lifeDecay,            \* FlowFieldManager.#pointLifeDecay
  position,             \* the position attribute handed to FlowFieldManager.init
  texelData,            \* FlowFieldManager.texelData
  texelUv,              \* FlowFieldManager.texelUv
  size,                 \* side of the GPUComputationRenderer
  textures,             \* image of every texture handle
  uBaseDataTexture,     \* handle held by the uBaseDataTexture uniform
  currentTextureIndex,  \* GPUComputationRenderer.currentTextureIndex
  gpuTime,              \* compute uniform uTime
  uDeltaTime,           \* compute uniform uDeltaTime
  points,               \* Model.points is set
  drawRange,            \* points.geometry.drawRange as <<start, count>>
  uPointPositionTexture,\* handle held by the points material
  uTimeAttached,        \* the uniforms of onBeforeCompile exist
  pointTime,            \* points uniform uTime
  uPointer,             \* points uniform uPointer
  intersections,        \* Pointer.intersections
  elapsed,              \* Timer elapsed
  frameLog,             \* operations of the latest frame callback, in order
  sampled,              \* per drawn vertex: the raster index the latest render sampled
  resetFlags,           \* per texel: the latest compute step took the reset branch
  steps,                \* compute steps so far, up to MaxSteps
  lastRead,             \* handle the latest compute step read
  lastWritten           \* handle the latest compute step wrote

\* One draw of one point by the vertex stage
VARIABLES
  uPointerMinRad,       \* points uniform uPointerMinRad
  uPointerMaxRad,       \* points uniform uPointerMaxRad
  vertexIn,             \* [position, pointer, time] the stage was run on
  vertexOut             \* what PositionVertex made of it

vertexVars == <<uPointerMinRad, uPointerMaxRad, vertexIn, vertexOut>>

\* The life of the instance the owner holds (instanceRef.current of the
\* useThr2Pxl hook): its #init runs, its frame requests, its listeners
VARIABLES
  dracoUrl,             \* config.loader.dracoUrl is given
  isDebuggingConfig,    \* config.isDebugging ?? false
  debug,                \* the debug state of the instance, its pane and its
                        \* keydown handlers
  modelManager,         \* the ModelManager of the instance, with the
                        \* window.innerWidth and the result of its last update()
  mounted,              \* the effect of the hook is active
  instances,            \* per instance the owner created: calls of dispose()
  sims,                 \* per #init run of the instance: what it built
  latestPending,        \* the request of #requestAnimationId is pending
  stalePending,         \* pending requests that #requestAnimationId lost
  cancelled,            \* requests cancelled by cancelAnimationFrame
  resizeListener,       \* #boundHandleResize is attached to window
  main,                 \* "running", "disposed" (dispose() returned), "threw"
  disposals,            \* calls of Main.dispose on the instance, up to MaxDisposals
  lastFrame,            \* what the latest #render did
  afterDispose          \* a compute step or render was submitted after
                        \* dispose() of the instance had returned

lifeVars ==
  <<dracoUrl, isDebuggingConfig, debug, modelManager, mounted, instances, sims, latestPending, stalePending,
    cancelled, resizeListener, main, disposals, lastFrame, afterDispose>>

simVars ==
  <<colorCount, initError, compileCalls, loadLog,
    modelLoad, pointerMesh, lifeDecay, position, texelData, texelUv, size,
    textures, uBaseDataTexture, currentTextureIndex, gpuTime, uDeltaTime,
    points, drawRange, uPointPositionTexture, uTimeAttached, pointTime,
    uPointer, intersections, elapsed, frameLog, sampled, resetFlags, steps,
    lastRead, lastWritten>>

vars == <<simVars, vertexVars, lifeVars>>

\* The part of the state a frame callback works on
FrameState ==
  [textures |-> textures, currentTextureIndex |-> currentTextureIndex,
   gpuTime |-> gpuTime, uDeltaTime |-> uDeltaTime,
   uPointPositionTexture |-> uPointPositionTexture,
   uTimeAttached |-> uTimeAttached, pointTime |-> pointTime,
   uPointer |-> uPointer, frameLog |-> <<>>, sampled |-> sampled,
   resetFlags |-> resetFlags, steps |-> steps, lastRead |-> lastRead,
   lastWritten |-> lastWritten]

(***************************************************************************)
(* Main: #init, #render, dispose, as they act on the life of the instance  *)
(***************************************************************************)

\* #init runs of one instance
MaxInits == 2

\* Instances one owner creates
MaxInstances == 2

\* Stale pending requests and cancelled requests are counted up to here
MaxRequests == 2

\* dispose() calls on one instance are counted up to here
MaxDisposals == 3

\* Folders of one title in one pane are counted up to here
MaxFolders == 2

\* What #initRendererManager and #initRunner build: a renderer with its
\* canvas, a Runner whose Pointer listens on the canvas, two loads pending
NewSim ==
  [renderer |-> "live", runner |-> "live", listeners |-> TRUE,
   modelLoad |-> "pending", pointerLoad |-> "pending", gpGpu |-> "none",
   geometry |-> "none", material |-> "none", inScene |-> FALSE,
   uTime |-> FALSE]

\* The #init run that #runner and #rendererManager refer to
Current(m) == Len(m.sims)

\* x?.dispose() of a resource that may not exist
Release(r) == IF r = "live" THEN "disposed" ELSE r

\* CancelAnimationFrame that leaves the request pending
CancelAnimationFrame_Keep(m) == m

\* cancelAnimationFrame(this.#requestAnimationId)
CancelAnimationFrame(m) ==
  IF m.latestPending
    THEN [m EXCEPT !.latestPending = FALSE,
                   !.cancelled = Min(@ + 1, MaxRequests)]
    ELSE m

\* requestAnimationFrame(...) assigned to #requestAnimationId
RequestAnimationFrame(m) ==
  [m EXCEPT !.stalePending =
               IF m.latestPending THEN Min(@ + 1, MaxRequests) ELSE @,
            !.latestPending = TRUE]

\* Pointer.dispose: removes pointermove and pointerleave from the canvas
PointerDispose(sim) == [sim EXCEPT !.listeners = FALSE]

\* ModelDispose that leaves the flow field manager alone
ModelDispose_KeepGpGpu(sim) ==
  [sim EXCEPT !.geometry = Release(@), !.material = Release(@)]

\* Model.dispose: the GPGPU renderer, the points geometry and material
ModelDispose(sim) ==
  [sim EXCEPT !.gpGpu = Release(@), !.geometry = Release(@),
              !.material = Release(@)]

\* Runner.dispose
RunnerDispose(sim) ==
  [ModelDispose(PointerDispose(sim)) EXCEPT !.runner = "disposed"]

\* RendererManager.dispose: empties the scene, removes the canvas, disposes
RendererManagerDispose(sim) ==
  [sim EXCEPT !.inScene = FALSE, !.renderer = "disposed"]

\* The folders Runner.debug, Model.debug and FlowFieldManager.debug add
NoFolders == [pointer |-> 0, point |-> 0, motion |-> 0]

AddFolder(folders, title) ==
  [folders EXCEPT ![title] = Min(@ + 1, MaxFolders)]

\* Runner.debug, then Model.debug, then FlowFieldManager.debug.  Each adds
\* its folder and then its bindings; a binding to a uniform that does not
\* exist yet, or to the uniforms of a #gpGpuVar that init() has not yet
\* assigned, throws a TypeError that leaves debug().
RunnerDebug(sim, folders) ==
  IF sim.geometry # "none"
    THEN IF sim.uTime
           THEN [folders |-> AddFolder(AddFolder(AddFolder(folders, "pointer"),
                                                 "point"), "motion"),
                 threw |-> FALSE]
           ELSE [folders |-> AddFolder(folders, "pointer"), threw |-> TRUE]
    ELSE [folders |-> AddFolder(folders, "motion"),
          threw |-> sim.gpGpu = "none"]

\* #enableDebug: runner.debug() once, then debugManager.enable()
EnableDebug(d, sim) ==
  IF d.isDebugReady
    THEN [d EXCEPT !.pane = "shown"]
    ELSE LET r == RunnerDebug(sim, d.folders)
         IN  IF r.threw
               THEN [d EXCEPT !.folders = r.folders]
               ELSE [d EXCEPT !.folders = r.folders, !.isDebugReady = TRUE,
                              !.pane = "shown"]

\* #disableDebug
DisableDebug(d) == [d EXCEPT !.pane = "hidden"]

\* #handleDebug for the key 'd'
HandleDebug(d, sim) ==
  IF ~d.isDebugging
    THEN EnableDebug([d EXCEPT !.isDebugging = TRUE], sim)
    ELSE DisableDebug([d EXCEPT !.isDebugging = FALSE])

\* #initDebugManager: a new pane, hidden; #isDebugging = false; the bound
\* handler is added to document
InitDebugManager(d) ==
  [d EXCEPT !.folders = NoFolders, !.pane = "hidden",
            !.isDebugging = FALSE, !.keydown = @ + 1]

\* #disposeDebugManager: removeEventListener is called on window, where
\* the handler was never added, so no handler is removed; the pane is
\* disposed
DisposeDebugManager(d) == [d EXCEPT !.pane = "disposed"]

\* Main.dispose; ModelLoaderManager.dispose calls #dracoLoader.dispose(),
\* and #dracoLoader is only set when a dracoPath was given
MainDispose(m) ==
  LET c == Current(m)
      a == CancelAnimationFrame(m)
      b == [a EXCEPT !.sims[c] = RendererManagerDispose(RunnerDispose(@)),
                     !.disposals = Min(@ + 1, MaxDisposals)]
  IN  IF ~dracoUrl
        THEN [b EXCEPT !.main = "threw"]
        ELSE [b EXCEPT !.resizeListener = FALSE, !.main = "disposed",
                       !.debug = [DisposeDebugManager(@)
                                    EXCEPT !.isDebugReady = FALSE]]

\* RunnerReady that does not look at the points
RunnerReady_Always(sim) == TRUE

\* Runner.update: model.points && model.points.material.uniforms.uTime
RunnerReady(sim) == sim.geometry # "none" /\ sim.uTime

\* #render: runner.update, rendererManager.update, the debug settings the
\* configuration asked for once the points and uTime exist, then
\* requestAnimationFrame.  The first render of points that are in the
\* scene compiles their material, which attaches uTime.
Render(m) ==
  LET c == Current(m)
      sim == m.sims[c]
      r == [m EXCEPT !.sims[c].uTime = @ \/ sim.inScene,
                     !.lastFrame = [compute |-> RunnerReady(sim),
                                    render |-> TRUE, request |-> TRUE,
                                    modelLoad |-> sim.modelLoad],
                     !.afterDispose = @ \/ m.main = "disposed"]
      e == IF r.debug.enableDebug /\ RunnerReady(r.sims[c])
             THEN [r EXCEPT !.debug =
                      [EnableDebug([@ EXCEPT !.isDebugging = TRUE],
                                   r.sims[c])
                         EXCEPT !.enableDebug = FALSE]]
             ELSE r
  IN  RequestAnimationFrame(e)

\* #init: builds the managers and the runner, attaches the resize handler,
\* calls #render
MainInit(m) ==
  Render([m EXCEPT !.sims = Append(@, NewSim), !.resizeListener = TRUE,
                   !.main = "running",
                   !.debug = [InitDebugManager(@)
                                EXCEPT !.enableDebug = isDebuggingConfig]])

\* HandleResize that runs #init before dispose()
HandleResize_InitFirst(m) == MainDispose(MainInit(m))

\* #boundHandleResize when ModelManager.update() returns true:
\* this.dispose(), then this.#init()
HandleResize(m) ==
  LET d == MainDispose(m)
  IN  IF d.main = "threw" THEN d ELSE MainInit(d)

\* An instance before its constructor ran #init
NoMain ==
  [sims |-> <<>>, latestPending |-> FALSE, stalePending |-> 0,
   cancelled |-> 0, resizeListener |-> FALSE, main |-> "running",
   disposals |-> 0,
   lastFrame |-> [compute |-> FALSE, render |-> FALSE, request |-> FALSE,
                  modelLoad |-> "pending"],
   afterDispose |-> FALSE,
   debug |-> [isDebugging |-> FALSE, isDebugReady |-> FALSE,
              enableDebug |-> FALSE, folders |-> NoFolders,
              pane |-> "none", keydown |-> 0]]

\* new Main(config)
NewMain == MainInit(NoMain)

\* No point has been drawn
NoVertex == [position |-> <<0, 0, 0>>, pointer |-> <<0, 0, 0>>, time |-> 0]

VertexIdle ==
  /\ uPointerMinRad = ONE \div 2
  /\ uPointerMaxRad = 2 * ONE
  /\ vertexIn = NoVertex
  /\ vertexOut = PositionVertex(<<0, 0, 0>>, <<0, 0, 0>>, <<0, 0, 0>>,
                                ONE \div 2, 2 * ONE, 0)

\* The fields of the instance as one record
MainState ==
  [sims |-> sims, latestPending |-> latestPending,
   stalePending |-> stalePending, cancelled |-> cancelled,
   resizeListener |-> resizeListener, main |-> main, disposals |-> disposals,
   lastFrame |-> lastFrame, afterDispose |-> afterDispose, debug |-> debug]

IsMain(m) ==
  /\ sims = m.sims
  /\ latestPending = m.latestPending
  /\ stalePending = m.stalePending
  /\ cancelled = m.cancelled
  /\ resizeListener = m.resizeListener
  /\ main = m.main
  /\ disposals = m.disposals
  /\ lastFrame = m.lastFrame
  /\ afterDispose = m.afterDispose
  /\ debug = m.debug

\* The widths of the window
MaxWidth == 7

\* The breakpoints a configuration may give next to the `0` breakpoint
Breakpoints == {2, 3, 5}

DEFAULT_MODEL_BREAKPOINT == 0

\* #currentBreakpoint before the first update()
NoBreakpoint == -1

\* Object.keys(models).map(Number): the integer keys, in ascending order
RECURSIVE Keys(_)
Keys(set) ==
  IF set = {} THEN <<>>
  ELSE LET least == CHOOSE b \in set : \A c \in set : b <= c
       IN  <<least>> \o Keys(set \ {least})

\* The model a configuration gives for a breakpoint
ModelOf(breakpoint) == [src |-> breakpoint + 10]

\* CurrentBreakpoint that does not look at the width
RECURSIVE CurrentBreakpoint_AnyWidth(_, _, _)
CurrentBreakpoint_AnyWidth(breakpoints, width, max) ==
  IF breakpoints = <<>> THEN max
  ELSE CurrentBreakpoint_AnyWidth(
         Tail(breakpoints), width,
         IF Head(breakpoints) > max THEN Head(breakpoints) ELSE max)

\* update: this.#breakpoints.reduce((max, breakpoint) =>
\*   breakpoint <= width && breakpoint > max ? breakpoint : max, ...)
RECURSIVE CurrentBreakpoint(_, _, _)
CurrentBreakpoint(breakpoints, width, max) ==
  IF breakpoints = <<>> THEN max
  ELSE CurrentBreakpoint(
         Tail(breakpoints), width,
         IF Head(breakpoints) <= width /\ Head(breakpoints) > max
           THEN Head(breakpoints) ELSE max)

\* ModelManager.update under a window of the given width
ModelManagerUpdate(mm, width) ==
  LET currentBreakpoint ==
        CurrentBreakpoint(mm.breakpoints, width, DEFAULT_MODEL_BREAKPOINT)
  IN  IF currentBreakpoint # mm.currentBreakpoint
        THEN [mm EXCEPT !.currentBreakpoint = currentBreakpoint,
                        !.currentModel = mm.models[currentBreakpoint],
                        !.innerWidth = width, !.updated = TRUE]
        ELSE [mm EXCEPT !.innerWidth = width, !.updated = FALSE]

\* new ModelManager(models): the breakpoints of the models, then update()
NewModelManager(set, width) ==
  ModelManagerUpdate(
    [models |-> [b \in set |-> ModelOf(b)], breakpoints |-> Keys(set),
     currentBreakpoint |-> NoBreakpoint, currentModel |-> ModelOf(NoBreakpoint),
     innerWidth |-> width, updated |-> FALSE],
    width)

\* A configuration of one model, for the `0` breakpoint
ModelIdle == modelManager = NewModelManager({DEFAULT_MODEL_BREAKPOINT}, 0)

\* One instance, just constructed by the first effect of the hook
MainIdle ==
  /\ dracoUrl = TRUE
  /\ isDebuggingConfig = FALSE
  /\ mounted = TRUE
  /\ instances = <<[disposeCalls |-> 0, state |-> "running"]>>
  /\ IsMain(NewMain)

LifeIdle == MainIdle /\ ModelIdle

\* State after new Main(config): nothing loaded, the first #render has drawn
\* an empty scene and requested the next frame.
SimInit ==
  /\ modelLoad = "pending"
  /\ colorCount = 0
  /\ initError = FALSE
  /\ compileCalls = 0
  /\ loadLog = <<>>
  /\ pointerMesh = FALSE
  /\ lifeDecay \in LifeDecays
  /\ position = <<>>
  /\ texelData = <<>>
  /\ texelUv = <<>>
  /\ size = 0
  /\ textures = [h \in 0..InitialTexture |-> <<>>]
  /\ uBaseDataTexture = NoTexture
  /\ currentTextureIndex = 0
  /\ gpuTime = 0
  /\ uDeltaTime = 0
  /\ points = FALSE
  /\ drawRange = <<0, 0>>
  /\ uPointPositionTexture = NoTexture
  /\ uTimeAttached = FALSE
  /\ pointTime = 0
  /\ uPointer = <<0, 0, 0>>
  /\ intersections = <<>>
  /\ elapsed = 0
  /\ frameLog = <<"render">>
  /\ sampled = <<>>
  /\ resetFlags = <<>>
  /\ steps = 0
  /\ lastRead = NoTexture
  /\ lastWritten = NoTexture

Init == SimInit /\ VertexIdle /\ LifeIdle

(***************************************************************************)
(* Model.load resolves: FlowFieldManager.init, #initPoints, and the        *)
(* continuation of Runner.#initModel                                       *)
(***************************************************************************)

\* UBaseDataTexture given the texture of a render target
UBaseDataTexture_Target(initialTexture, renderTarget) == renderTarget

\* #createGpGpuVar: the texture the uBaseDataTexture uniform is given
UBaseDataTexture(initialTexture, renderTarget) == initialTexture

\* DrawRange over every texel of the texture
DrawRange_WholeTexture(pos) ==
  <<0, CeilSqrt(Count(pos, 3)) * CeilSqrt(Count(pos, 3))>>

\* #initPoints: setDrawRange(0, position.count)
DrawRange(pos) == <<0, Count(pos, 3)>>

\* The color attribute has the count of the position attribute; for the
\* one-vertex mesh a color attribute of two items is drawn as well
ColorCounts(n) == IF n = 1 THEN {n, n + 1} ELSE {n}

\* What gpGpu.init() may return: no error, or an error
InitErrors == {FALSE, TRUE}

\* AddPointerHandler that compiles before the hook is installed
AddPointerHandler_CompileFirst(log) ==
  Append(Append(log, "compile"), "onBeforeCompile")

\* #addPointerHandlerToModel: installs onBeforeCompile, then compile()
AddPointerHandler(log) == Append(Append(log, "onBeforeCompile"), "compile")

\* the continuation of model.load() in #initModel
LoadContinuation(log) == Append(AddPointerHandler(log), "add")

CompileCalls(log) == Cardinality({j \in DOMAIN log : log[j] = "compile"})

ModelLoaded ==
  /\ modelLoad = "pending"
  /\ \E n \in 0..MaxVertices, seed \in 0..MaxSeed :
     \E colors \in ColorCounts(n), error \in InitErrors :
       LET pos == Center(RawMesh(n))
           data == GenerateTexelData(pos, seed)
           made == GpGpuCreate(data, error)
           side == made.size
           image == made.image
       IN  /\ position' = pos
           /\ colorCount' = colors
           /\ initError' = error
           /\ texelData' = data
           /\ texelUv' = GenerateTexelUv(Count(pos, 3), CeilSqrt(Count(pos, 3)))
           /\ IF made.thrown
                \* the Error leaves init and load: the promise is rejected
                THEN /\ modelLoad' = "rejected"
                     /\ UNCHANGED <<size, textures, uBaseDataTexture,
                                    resetFlags, drawRange, points, loadLog,
                                    compileCalls>>
                ELSE /\ modelLoad' = "resolved"
                     /\ size' = side
                     \* GPUComputationRenderer.init(): both targets start as
                     \* the texture
                     /\ textures' = [h \in 0..InitialTexture |-> image]
                     /\ uBaseDataTexture' = UBaseDataTexture(InitialTexture, 0)
                     /\ resetFlags' = [k \in 0..(side * side - 1) |-> FALSE]
                     /\ drawRange' = DrawRange(pos)
                     /\ points' = TRUE
                     /\ loadLog' = LoadContinuation(loadLog)
                     /\ compileCalls' =
                          compileCalls + CompileCalls(LoadContinuation(loadLog))
  /\ currentTextureIndex' = 0
  /\ gpuTime' = 0
  /\ uDeltaTime' = 0
  /\ uPointPositionTexture' = NoTexture
  /\ UNCHANGED <<pointerMesh, lifeDecay, uTimeAttached, pointTime, uPointer,
                 intersections, elapsed, frameLog, sampled, steps, lastRead,
                 lastWritten>>
  /\ UNCHANGED <<vertexVars, lifeVars>>

\* Pointer.load resolves
PointerLoaded ==
  /\ ~pointerMesh
  /\ pointerMesh' = TRUE
  /\ UNCHANGED <<colorCount, initError, compileCalls, loadLog,
                 modelLoad, lifeDecay, position, texelData, texelUv, size,
                 textures, uBaseDataTexture, currentTextureIndex, gpuTime,
                 uDeltaTime, points, drawRange, uPointPositionTexture,
                 uTimeAttached, pointTime, uPointer, intersections, elapsed,
                 frameLog, sampled, resetFlags, steps, lastRead, lastWritten>>
  /\ UNCHANGED <<vertexVars, lifeVars>>

(***************************************************************************)
(* Pointer events                                                          *)
(***************************************************************************)

PointerMove ==
  /\ \E hits \in RayHits :
       intersections' = IF pointerMesh THEN hits ELSE intersections
  /\ UNCHANGED <<colorCount, initError, compileCalls, loadLog,
                 modelLoad, pointerMesh, lifeDecay, position, texelData,
                 texelUv, size, textures, uBaseDataTexture,
                 currentTextureIndex, gpuTime, uDeltaTime, points, drawRange,
                 uPointPositionTexture, uTimeAttached, pointTime, uPointer,
                 elapsed, frameLog, sampled, resetFlags, steps, lastRead,
                 lastWritten>>
  /\ UNCHANGED <<vertexVars, lifeVars>>

PointerLeave ==
  /\ intersections' = <<>>
  /\ UNCHANGED <<colorCount, initError, compileCalls, loadLog,
                 modelLoad, pointerMesh, lifeDecay, position, texelData,
                 texelUv, size, textures, uBaseDataTexture,
                 currentTextureIndex, gpuTime, uDeltaTime, points, drawRange,
                 uPointPositionTexture, uTimeAttached, pointTime, uPointer,
                 elapsed, frameLog, sampled, resetFlags, steps, lastRead,
                 lastWritten>>
  /\ UNCHANGED <<vertexVars, lifeVars>>

(***************************************************************************)
(* The frame callback: Main.#render                                        *)
(***************************************************************************)

\* FlowFieldManager.update: the uniforms, then GPUComputationRenderer.compute()
FlowFieldUpdate(s, deltaTime, elapsedTime) ==
  LET read == s.currentTextureIndex
      written == NextTextureIndex(read)
      image == ComputePass(s.textures[read], s.textures[uBaseDataTexture],
                           size, elapsedTime, deltaTime, lifeDecay)
  IN  [s EXCEPT !.gpuTime = elapsedTime,
                !.uDeltaTime = deltaTime,
                !.textures = [s.textures EXCEPT ![written] = image],
                !.currentTextureIndex = written,
                !.resetFlags = ResetPass(s.textures[read], size),
                !.steps = Min(s.steps + 1, MaxSteps),
                !.lastRead = read,
                !.lastWritten = written,
                !.frameLog = Append(s.frameLog, "compute")]

\* PointPositionTexture taken before the compute step
PointPositionTexture_Before(before, after) == before

\* Model.update: the handle given to uPointPositionTexture, out of the
\* current render target before and after FlowFieldManager.update
PointPositionTexture(before, after) == after

\* Model.update
ModelUpdate(s, deltaTime, elapsedTime) ==
  IF points
    THEN LET t == FlowFieldUpdate(s, deltaTime, elapsedTime)
         IN  [t EXCEPT !.uPointPositionTexture =
                          PointPositionTexture(s.currentTextureIndex,
                                               t.currentTextureIndex)]
    ELSE s

\* RunnerUpdate whose guard is model.points alone
RunnerUpdate_PointsOnly(s, deltaTime, elapsedTime) ==
  IF points
    THEN LET t == ModelUpdate(s, deltaTime, elapsedTime)
         IN  [t EXCEPT !.pointTime = elapsedTime,
                       !.uPointer = PointerUniform(intersections),
                       !.frameLog = Append(t.frameLog, "pointer")]
    ELSE s

\* Runner.update
RunnerUpdate(s, deltaTime, elapsedTime) ==
  IF points /\ s.uTimeAttached
    THEN LET t == ModelUpdate(s, deltaTime, elapsedTime)
         IN  [t EXCEPT !.pointTime = elapsedTime,
                       !.uPointer = PointerUniform(intersections),
                       !.frameLog = Append(t.frameLog, "pointer")]
    ELSE s

\* Float j of the aUvPoint attribute; a fetch past the buffer reads 0.0
AttributeAt(array, j) == IF j \in DOMAIN array THEN array[j] ELSE <<0, 1>>

\* The vertex stage of one draw of the points: the raster index each drawn
\* vertex samples with its aUvPoint
SampledTexels ==
  [i \in drawRange[1]..(drawRange[1] + drawRange[2] - 1) |->
     TexelIndex(AttributeAt(texelUv, 2 * i), AttributeAt(texelUv, 2 * i + 1),
                size)]

\* RendererManager.update: renderer.render(scene, camera).  The first render
\* of the points compiles their material, which runs onBeforeCompile.
RendererManagerUpdate(s) ==
  LET t == IF points /\ ~s.uTimeAttached
             THEN [s EXCEPT !.uTimeAttached = TRUE,
                            !.pointTime = 0,
                            !.uPointer = DisabledPointer]
             ELSE s
  IN  [t EXCEPT !.sampled = IF points THEN SampledTexels ELSE <<>>,
                !.frameLog = Append(t.frameLog, "render")]

\* SizeFade without the fade out: size = sizeIn
SizeFade_InOnly(life) == Smoothstep(0, ONE \div 5, life)

\* points vertex shader: size = min(sizeIn, sizeOut) of pointPosition.a
SizeFade(life) ==
  Min(Smoothstep(0, ONE \div 5, life),
      ONE - Smoothstep((4 * ONE) \div 5, ONE, life))

\* uPointSize of the material, aPointSize of a vertex (Math.random()) and
\* the depth -viewPosition.z of a point in front of the camera
PointSizes == {DEFAULT_POINT_SIZE, 2 * DEFAULT_POINT_SIZE}

APointSizes == {ONE \div 4, ONE - 1}

Depths == {ONE, 4 * ONE}

\* points vertex shader: gl_PointSize = uPointSize * aPointSize * size,
\* then gl_PointSize *= -(1.0 / viewPosition.z)
GlPointSize(uPointSize, aPointSize, life, depth) ==
  FMul(FMul(FMul(uPointSize, aPointSize), SizeFade(life)),
       (ONE * ONE) \div depth)

\* pointPosition.a of drawn vertex i: the texel its aUvPoint fetched from
\* uPointPositionTexture in the last draw
PointLife(i) == textures[uPointPositionTexture][sampled[i]][4]

\* MainRender that renders before it updates the runner
MainRender_RenderFirst(s, deltaTime, elapsedTime) ==
  RunnerUpdate(RendererManagerUpdate(s), deltaTime, elapsedTime)

\* #render: runner.update, then rendererManager.update
MainRender(s, deltaTime, elapsedTime) ==
  RendererManagerUpdate(RunnerUpdate(s, deltaTime, elapsedTime))

Frame ==
  \E deltaTime \in DeltaTimes :
    /\ elapsed + deltaTime <= MaxElapsed
    /\ elapsed' = elapsed + deltaTime
    /\ UNCHANGED <<colorCount, initError, compileCalls, loadLog,
                 modelLoad, pointerMesh, lifeDecay, position, texelData,
                   texelUv, size, uBaseDataTexture, points, drawRange,
                   intersections>>
    /\ UNCHANGED <<vertexVars, lifeVars>>
    /\ \E s \in {MainRender(FrameState, deltaTime, elapsed + deltaTime)} :
           /\ textures' = s.textures
           /\ currentTextureIndex' = s.currentTextureIndex
           /\ gpuTime' = s.gpuTime
           /\ uDeltaTime' = s.uDeltaTime
           /\ uPointPositionTexture' = s.uPointPositionTexture
           /\ uTimeAttached' = s.uTimeAttached
           /\ pointTime' = s.pointTime
           /\ uPointer' = s.uPointer
           /\ frameLog' = s.frameLog
           /\ sampled' = s.sampled
           /\ resetFlags' = s.resetFlags
           /\ steps' = s.steps
           /\ lastRead' = s.lastRead
           /\ lastWritten' = s.lastWritten

Next ==
  \/ ModelLoaded
  \/ PointerLoaded
  \/ PointerMove
  \/ PointerLeave
  \/ Frame

Spec == Init /\ [][Next]_vars

(***************************************************************************)
(* The animation loop without an end: #render requests the next frame at   *)
(* the end of every frame, so frames keep arriving.  Each frame's delta is *)
(* positive (the timestamps of successive animation frames increase), and  *)
(* the elapsed time, which the shaders read only through the noise, is     *)
(* kept modulo LivePeriod                                                  *)
(***************************************************************************)
LivePeriod == 4 * ONE

PositiveDeltaTimes == {d \in DeltaTimes : d > 0}

LiveFrame ==
  \E deltaTime \in PositiveDeltaTimes :
    /\ elapsed' = (elapsed + deltaTime) % LivePeriod
    /\ UNCHANGED <<colorCount, initError, compileCalls, loadLog,
                   modelLoad, pointerMesh, lifeDecay, position, texelData,
                   texelUv, size, uBaseDataTexture, points, drawRange,
                   intersections>>
    /\ UNCHANGED <<vertexVars, lifeVars>>
    /\ \E s \in {MainRender(FrameState, deltaTime,
                             (elapsed + deltaTime) % LivePeriod)} :
           /\ textures' = s.textures
           /\ currentTextureIndex' = s.currentTextureIndex
           /\ gpuTime' = s.gpuTime
           /\ uDeltaTime' = s.uDeltaTime
           /\ uPointPositionTexture' = s.uPointPositionTexture
           /\ uTimeAttached' = s.uTimeAttached
           /\ pointTime' = s.pointTime
           /\ uPointer' = s.uPointer
           /\ frameLog' = s.frameLog
           /\ sampled' = s.sampled
           /\ resetFlags' = s.resetFlags
           /\ steps' = s.steps
           /\ lastRead' = s.lastRead
           /\ lastWritten' = s.lastWritten

LiveNext ==
  \/ ModelLoaded
  \/ PointerLoaded
  \/ PointerMove
  \/ PointerLeave
  \/ LiveFrame

\* a configuration whose particles age: flowField.lifeDecay > 0
LiveInit == Init /\ lifeDecay > 0

\* LiveFrame is enabled in every state (it always moves the elapsed time),
\* so weak fairness of it, WF_vars(LiveFrame), is that it is taken again and
\* again
LiveSpec == LiveInit /\ [][LiveNext]_vars /\ []<><<LiveFrame>>_vars

(***************************************************************************)
(* The vertex stage on its own: a configuration of the pointer radii, then *)
(* draws of a point                                                        *)
(***************************************************************************)

SimIdle == SimInit /\ lifeDecay = 0

VertexInit ==
  /\ SimIdle
  /\ LifeIdle
  /\ \E pair \in RadPairs :
       /\ uPointerMinRad = pair[1]
       /\ uPointerMaxRad = pair[2]
       /\ vertexOut = PositionVertex(<<0, 0, 0>>, <<0, 0, 0>>, <<0, 0, 0>>,
                                     pair[1], pair[2], 0)
  /\ vertexIn = NoVertex

\* A draw of one point: the position sampled from the position texture, the
\* value Runner.update gave uPointer, and uTime
VertexStage ==
  /\ \E position_ \in VertexPositions, hits \in RayHits, time \in VertexTimes :
     \E zeroDirection \in ZeroDirections :
       /\ vertexIn' = [position |-> position_,
                       pointer |-> PointerUniform(hits), time |-> time]
       /\ vertexOut' = PositionVertex(position_, PointerUniform(hits),
                                      zeroDirection, uPointerMinRad,
                                      uPointerMaxRad, time)
  /\ UNCHANGED <<uPointerMinRad, uPointerMaxRad, simVars, lifeVars>>

VertexNext == VertexStage

VertexSpec == VertexInit /\ [][VertexNext]_vars

(***************************************************************************)
(* The life of an instance: the owner (the useThr2Pxl hook), the window,   *)
(* the frame driver and the loaders act on it                              *)
(***************************************************************************)

IsMainNext(m) ==
  /\ sims' = m.sims
  /\ latestPending' = m.latestPending
  /\ stalePending' = m.stalePending
  /\ cancelled' = m.cancelled
  /\ resizeListener' = m.resizeListener
  /\ main' = m.main
  /\ disposals' = m.disposals
  /\ lastFrame' = m.lastFrame
  /\ afterDispose' = m.afterDispose
  /\ debug' = m.debug

LifeInit ==
  /\ SimIdle
  /\ VertexIdle
  /\ dracoUrl \in BOOLEAN
  /\ isDebuggingConfig \in BOOLEAN
  /\ ModelIdle
  /\ mounted = TRUE
  /\ instances = <<[disposeCalls |-> 0, state |-> "running"]>>
  /\ IsMain(NewMain)

\* The frame driver runs the callback of the pending request
LifeFrame ==
  /\ latestPending
  /\ \E m \in {Render([MainState EXCEPT !.latestPending = FALSE])} :
       IsMainNext(m)
  /\ UNCHANGED <<dracoUrl, isDebuggingConfig, modelManager, mounted,
                 instances, simVars, vertexVars>>

\* A resize of the window that crosses a breakpoint
Resize ==
  /\ resizeListener
  /\ Len(sims) < MaxInits
  /\ \E m \in {HandleResize(MainState)} : IsMainNext(m)
  /\ UNCHANGED <<dracoUrl, isDebuggingConfig, modelManager, mounted,
                 instances, simVars, vertexVars>>

\* Model.load as it settles: a rejected load built nothing; a resolved one
\* built the GPGPU renderer and the points, and its continuation in
\* #initModel added the points to the scene
ModelLoad(sim, error) ==
  IF error
    THEN [sim EXCEPT !.modelLoad = "rejected"]
    ELSE [sim EXCEPT !.modelLoad = "resolved", !.gpGpu = "live",
                     !.geometry = "live", !.material = "live",
                     !.inScene = TRUE]

\* The promise of model.load() of some #init run settles
ModelLoadSettles ==
  /\ \E g \in 1..Len(sims), error \in InitErrors :
       /\ sims[g].modelLoad = "pending"
       /\ sims' = [sims EXCEPT ![g] = ModelLoad(@, error)]
  /\ UNCHANGED <<dracoUrl, isDebuggingConfig, modelManager, debug, mounted,
                 instances,
                 latestPending, stalePending, cancelled, resizeListener,
                 main, disposals, lastFrame, afterDispose, simVars,
                 vertexVars>>

\* The promise of pointer.load() of some #init run resolves
PointerLoadSettles ==
  /\ \E g \in 1..Len(sims) :
       /\ sims[g].pointerLoad = "pending"
       /\ sims' = [sims EXCEPT ![g].pointerLoad = "resolved"]
  /\ UNCHANGED <<dracoUrl, isDebuggingConfig, modelManager, debug, mounted,
                 instances,
                 latestPending, stalePending, cancelled, resizeListener,
                 main, disposals, lastFrame, afterDispose, simVars,
                 vertexVars>>

\* The owner's record of the instance after n more calls of dispose()
Disposed(instance, n, m) ==
  [disposeCalls |-> Min(instance.disposeCalls + n, MaxDisposals),
   state |-> m.main]

\* useThr2Pxl, config changes: the cleanup of the last effect, then the
\* effect: instanceRef.current?.dispose(), new Thr2Pxl(config).  The model
\* goes on with the new instance.
HookConfigChange ==
  /\ mounted
  /\ Len(instances) < MaxInstances
  /\ \E cleanup \in {MainDispose(MainState)} :
     \E effect \in {MainDispose(cleanup)} :
       LET i == Len(instances)
       IN  IF effect.main = "threw"
             THEN /\ IsMainNext(effect)
                  /\ instances' =
                       [instances EXCEPT ![i] = Disposed(@, 2, effect)]
             ELSE /\ IsMainNext(NewMain)
                  /\ instances' =
                       Append([instances EXCEPT ![i] = Disposed(@, 2, effect)],
                              [disposeCalls |-> 0, state |-> "running"])
  /\ UNCHANGED <<dracoUrl, isDebuggingConfig, modelManager, mounted, simVars,
                 vertexVars>>

\* useThr2Pxl, unmount: the cleanup of the last effect
HookUnmount ==
  /\ mounted
  /\ mounted' = FALSE
  /\ \E m \in {MainDispose(MainState)} :
       /\ IsMainNext(m)
       /\ instances' =
            [instances EXCEPT ![Len(instances)] = Disposed(@, 1, m)]
  /\ UNCHANGED <<dracoUrl, isDebuggingConfig, modelManager, simVars,
                 vertexVars>>

\* The handlers attached to document run one after the other; an error
\* thrown by one of them does not keep the next from running
RECURSIVE Dispatch(_, _, _)
Dispatch(d, sim, handlers) ==
  IF handlers = 0 THEN d ELSE Dispatch(HandleDebug(d, sim), sim, handlers - 1)

\* The key 'd' is pressed
KeyDown ==
  /\ debug.keydown > 0
  /\ debug' = Dispatch(debug, sims[Len(sims)], debug.keydown)
  /\ UNCHANGED <<dracoUrl, isDebuggingConfig, modelManager, mounted,
                 instances, sims,
                 latestPending, stalePending, cancelled, resizeListener,
                 main, disposals, lastFrame, afterDispose, simVars,
                 vertexVars>>

LifeNext ==
  \/ LifeFrame
  \/ KeyDown
  \/ Resize
  \/ ModelLoadSettles
  \/ PointerLoadSettles
  \/ HookConfigChange
  \/ HookUnmount

LifeSpec == LifeInit /\ [][LifeNext]_vars

\* A frame driver that does not honour cancelAnimationFrame: it still
\* invokes the callback of a request that was cancelled
StaleFrame ==
  /\ cancelled > 0
  /\ \E m \in {Render([MainState EXCEPT !.cancelled = @ - 1])} :
       IsMainNext(m)
  /\ UNCHANGED <<dracoUrl, isDebuggingConfig, modelManager, mounted,
                 instances, simVars, vertexVars>>

DriverNext ==
  \/ LifeFrame
  \/ KeyDown
  \/ Resize
  \/ ModelLoadSettles
  \/ PointerLoadSettles
  \/ HookConfigChange
  \/ HookUnmount
  \/ StaleFrame

DriverSpec == LifeInit /\ [][DriverNext]_vars

(***************************************************************************)
(* Properties                                                              *)
(***************************************************************************)

Vertices == Count(position, 3)

\* The particle state texture: the current render target
StateTexture == textures[currentTextureIndex]

\* A frame callback that finds the model ready
ReadyFrame == points /\ uTimeAttached /\ Frame

\* C1: after FlowFieldManager.init of N >= 1 vertices the UV table has 2N
\* entries, entry i is (((i mod S)+0.5)/S, (floor(i/S)+0.5)/S) with
\* S = ceil(sqrt(N)), the texture is S x S, the texel that uv[i] samples has
\* raster index i and holds the texel data of offset 4i, and its xyz are
\* positions[i].
C1_TexelRoundTrip ==
  points =>
    LET S == CeilSqrt(Vertices)
        image == textures[InitialTexture]
    IN  /\ Cardinality(DOMAIN texelUv) = 2 * Vertices
        /\ Cardinality(DOMAIN image) = S * S
        /\ size = S
        /\ \A i \in 0..(Vertices - 1) :
             LET u == texelUv[2 * i]
                 v == texelUv[2 * i + 1]
             IN  /\ u[1] * (2 * S) = (2 * (i % S) + 1) * u[2]
                 /\ v[1] * (2 * S) = (2 * (i \div S) + 1) * v[2]
                 /\ TexelIndex(u, v, size) = i
                 /\ \A c \in 0..3 :
                      Texture(image, u, v, size)[c + 1] = texelData[4 * i + c]
                 /\ \A c \in 0..2 :
                      Texture(image, u, v, size)[c + 1] = position[3 * i + c]

C1_Witness ==
  /\ points
  /\ Vertices = 5
  /\ size = 3
  /\ position[0] # position[3]
  /\ Texture(textures[InitialTexture], texelUv[8], texelUv[9], size)[3]
       = position[14]

\* C2: in every compute step a particle whose stored life is >= 1.0 takes the
\* reset branch and is written as (base position, life 0) with no
\* displacement and no life advance, a particle whose stored life is < 1.0
\* does not take it, and a particle reset by the previous step is not reset
\* again.
C2_ResetCycle ==
  [][ReadyFrame =>
       \A k \in 0..(Vertices - 1) :
         LET r == StateTexture[k]
             w == StateTexture'[k]
             b == textures[InitialTexture][k]
         IN  /\ r[4] >= ONE => (resetFlags'[k] /\ w = <<b[1], b[2], b[3], 0>>)
             /\ r[4] < ONE => ~resetFlags'[k]
             /\ resetFlags[k] => ~resetFlags'[k]]_vars

C2_Witness ==
  /\ steps = MaxSteps
  /\ lifeDecay > 0
  /\ \E k \in 0..(Vertices - 1) :
       /\ resetFlags[k]
       /\ StateTexture[k][4] = 0

\* C3 as stated: every stored life is in [0, 1).
C3_LifeBelowOne ==
  points =>
    \A k \in 0..(Vertices - 1) :
      StateTexture[k][4] >= 0 /\ StateTexture[k][4] < ONE

\* C3 amended: every stored life is >= 0 and below 1 + lifeDecay * deltaTime
\* of the step that wrote it; a life >= 1.0 is stored only by a step that did
\* not reset the particle.
C3_LifeBounded ==
  points =>
    \A k \in 0..(Vertices - 1) :
      LET a == StateTexture[k][4]
      IN  /\ a >= 0
          /\ a < ONE + (lifeDecay * uDeltaTime) \div ONE
          /\ a >= ONE => (steps > 0 /\ ~resetFlags[k])

C3_Witness ==
  /\ points
  /\ \E k \in 0..(Vertices - 1) : StateTexture[k][4] >= ONE

Scenario == Vertices = 4 /\ lifeDecay = ONE

C5_LifeAdvances ==
  [][ReadyFrame =>
       \A k \in 0..(Vertices - 1) :
         LET r == StateTexture[k][4]
             w == StateTexture'[k][4]
         IN  /\ r < ONE =>
                  (w = r + (lifeDecay * uDeltaTime') \div ONE /\ w >= r)
             /\ w < r => r >= ONE]_vars

C5_Witness ==
  /\ steps > 0
  /\ lifeDecay = ONE \div 2
  /\ uDeltaTime = ONE
  /\ \E k \in 0..(Vertices - 1) :
       ~resetFlags[k] /\ StateTexture[k][4] = texelData[4 * k + 3] + ONE \div 2

\* C6: the draw range of the points is [0, N), drawn vertex i samples the
\* texel of raster index i, and no drawn vertex samples a padding texel.
C6_NoPaddingSampled ==
  points =>
    /\ drawRange = <<0, Vertices>>
    /\ \A i \in DOMAIN sampled :
         /\ i < Vertices
         /\ sampled[i] = i
         /\ sampled[i] \notin Vertices..(size * size - 1)

C6_Witness ==
  /\ points
  /\ Vertices = 3
  /\ size = 2
  /\ DOMAIN sampled = 0..2

\* C7: the texture of the uBaseDataTexture uniform holds in every state the
\* values packed at initialization (texel data, then zero padding), and a
\* particle just reset sits at that base position.
C7_BaseImmutable ==
  points =>
    /\ uBaseDataTexture \in 0..InitialTexture
    /\ \A k \in 0..(size * size - 1) :
         \A c \in 0..3 :
           textures[uBaseDataTexture][k][c + 1] =
             IF k < Vertices THEN texelData[4 * k + c] ELSE 0
    /\ \A k \in 0..(Vertices - 1) :
         resetFlags[k] =>
           \A c \in 0..2 : StateTexture[k][c + 1] = texelData[4 * k + c]

C7_Witness ==
  /\ steps = MaxSteps
  /\ \E k \in 0..(Vertices - 1) : resetFlags[k]
  /\ \E k \in 0..(Vertices - 1) :
       StateTexture[k][1] # textures[uBaseDataTexture][k][1]

\* C8: once a compute step has run, uPointPositionTexture is the texture
\* that step wrote, never the one it read, and the two differ.
C8_RenderTargetIsWritten ==
  steps > 0 =>
    /\ lastRead \in 0..1
    /\ lastWritten \in 0..1
    /\ lastRead # lastWritten
    /\ uPointPositionTexture = lastWritten
    /\ uPointPositionTexture # lastRead
    /\ uPointPositionTexture = currentTextureIndex

C8_Witness ==
  /\ steps = 2
  /\ uPointPositionTexture = 0
  /\ lastRead = 1

\* C9: a frame callback on a ready model runs the compute step, then the
\* pointer application, then the render, and nothing else in between.
C9_FrameOrder ==
  [][ReadyFrame => frameLog' = <<"compute", "pointer", "render">>]_vars

C9_Witness ==
  /\ frameLog = <<"compute", "pointer", "render">>
  /\ steps > 0

\* C10: Runner.update on a ready model leaves uPointer at the point of the
\* first, nearest intersection, or at (-99999, -99999, -99999) when there is
\* none; pointer-leave always empties the intersections.
C10_PointerUniform ==
  [][/\ ReadyFrame =>
          IF intersections = <<>>
            THEN uPointer' = <<-99999, -99999, -99999>>
            ELSE /\ uPointer' = intersections[1].point
                 /\ \A j \in 1..Len(intersections) :
                      intersections[1].distance <= intersections[j].distance
     /\ PointerLeave => intersections' = <<>>]_vars

C10_Witness ==
  /\ steps > 0
  /\ Len(intersections) = 2
  /\ uPointer = intersections[1].point
  /\ uPointer # intersections[2].point

\* C11 as stated: once dispose() of the instance has returned, no compute
\* step and no render is submitted any more, also when the frame driver
\* still invokes a callback that was requested before dispose().
C11_NoSubmissionAfterDispose == ~afterDispose

\* The #init run that was current before a step
Cur == Len(sims)

\* C12: a call of dispose() on an instance whose model and pointer mesh had
\* loaded leaves the GPGPU renderer with its render targets disposed, the
\* points geometry and material disposed and the pointermove and
\* pointerleave listeners removed from the canvas.
C12_DisposeReleases ==
  [][(/\ disposals' > disposals
      /\ sims[Cur].modelLoad = "resolved"
      /\ sims[Cur].pointerLoad = "resolved") =>
       /\ sims'[Cur].gpGpu = "disposed"
       /\ sims'[Cur].geometry = "disposed"
       /\ sims'[Cur].material = "disposed"
       /\ ~sims'[Cur].listeners]_vars

C12_Witness ==
  /\ main = "disposed"
  /\ disposals = 1
  /\ sims[1].modelLoad = "resolved"
  /\ sims[1].pointerLoad = "resolved"
  /\ sims[1].gpGpu = "disposed"
  /\ sims[1].geometry = "disposed"
  /\ ~sims[1].listeners

\* C13: a step that builds a new simulation (the resize handler of Main) or
\* a new instance (the hook) finds the old one disposed: renderer and runner
\* disposed, listeners removed, at least one dispose() call made; and in no
\* state are two renderers or runners of an instance, or two instances of
\* the owner, undisposed.
C13_DisposeBeforeInit ==
  [][/\ Len(sims') = Cur + 1 =>
          /\ sims'[Cur].renderer = "disposed"
          /\ sims'[Cur].runner = "disposed"
          /\ ~sims'[Cur].listeners
          /\ disposals' > disposals
     /\ Len(instances') = Len(instances) + 1 =>
          /\ instances'[Len(instances)].state = "disposed"
          /\ instances'[Len(instances)].disposeCalls >= 1
     /\ Cardinality({g \in 1..Len(sims') :
                       sims'[g].renderer = "live" \/ sims'[g].runner = "live"})
          <= 1
     /\ Cardinality({i \in 1..Len(instances') :
                       instances'[i].state = "running"}) <= 1]_vars

C13_Witness ==
  /\ Len(instances) = 2
  /\ Len(sims) = 2
  /\ sims[1].renderer = "disposed"
  /\ sims[1].gpGpu = "disposed"
  /\ sims[2].renderer = "live"
  /\ main = "running"

\* C14 as stated: an error returned by GPUComputationRenderer.init() is not
\* thrown: it does not leave GpGpuManager.create as an exception, so the
\* promise of Model.load is not rejected by it.
C14_InitErrorNotThrown == initError => modelLoad # "rejected"

\* C15: every frame callback that runs after the model load was rejected by
\* a GPGPU initialization failure issues a render and requests the next
\* frame, and runs no compute step; the rejected load has built no GPGPU
\* renderer and no points.
C15_DegradedLoop ==
  [][(LifeFrame /\ sims[Cur].modelLoad = "rejected") =>
       /\ lastFrame' = [compute |-> FALSE, render |-> TRUE,
                        request |-> TRUE, modelLoad |-> "rejected"]
       /\ latestPending'
       /\ sims'[Cur].gpGpu = "none"
       /\ sims'[Cur].geometry = "none"]_vars

C15_Witness ==
  /\ lastFrame.modelLoad = "rejected"
  /\ lastFrame.render
  /\ ~lastFrame.compute
  /\ latestPending
  /\ main = "running"

\* C16 as stated: a mesh whose color count differs from its position count,
\* or that has no vertex, makes the load fail before any texel data, UV
\* table or points are built.
C16_FailFast ==
  (modelLoad # "pending" /\ (colorCount # Vertices \/ Vertices = 0)) =>
    /\ modelLoad = "rejected"
    /\ texelData = <<>>
    /\ texelUv = <<>>
    /\ ~points

\* C17 as stated: a mesh of no vertex loads without an error and its compute
\* texture is 1 x 1.
C17_DegenerateTexture ==
  (modelLoad # "pending" /\ Vertices = 0 /\ ~initError) =>
    /\ modelLoad = "resolved"
    /\ size = 1
    /\ Cardinality(DOMAIN textures[InitialTexture]) = 1

\* C20: a model load that completed has called RendererManager.compile
\* exactly once, after onBeforeCompile was installed on the points material;
\* no frame callback and no pointer event calls it, and a load that has not
\* completed has not called it.
C20_CompileOncePerLoad ==
  /\ modelLoad = "resolved" =>
       /\ compileCalls = 1
       /\ loadLog = <<"onBeforeCompile", "compile", "add">>
  /\ modelLoad # "resolved" => (compileCalls = 0 /\ loadLog = <<>>)

C20_Witness ==
  /\ modelLoad = "resolved"
  /\ steps = MaxSteps
  /\ compileCalls = 1
  /\ loadLog[1] = "onBeforeCompile"

\* The falloff strength at distance d under the configured radii
Falloff(d) == DisplacementStrength(d, uPointerMinRad, uPointerMaxRad)

\* C18: with minRad <= maxRad the falloff strength at every distance up to
\* minRad is its greatest value, 1/minRad - 1/maxRad; at every distance from
\* maxRad on it is its least value, 0; it never increases with the distance
\* and is smaller at maxRad than at minRad when the radii differ.  The
\* strength of a drawn point is the falloff at its distance to the pointer.
C18_FalloffBoundary ==
  uPointerMinRad <= uPointerMaxRad =>
    /\ \A d \in 0..MaxDistance :
         /\ d <= uPointerMinRad => Falloff(d) = Falloff(uPointerMinRad)
         /\ d >= uPointerMaxRad => Falloff(d) = 0
         /\ Falloff(d) <= Falloff(uPointerMinRad)
         /\ Falloff(d) >= 0
         /\ d < MaxDistance => Falloff(d + 1) <= Falloff(d)
    /\ Falloff(uPointerMinRad) =
         (ONE * ONE) \div uPointerMinRad - (ONE * ONE) \div uPointerMaxRad
    /\ uPointerMinRad < uPointerMaxRad =>
         Falloff(uPointerMaxRad) < Falloff(uPointerMinRad)
    /\ vertexOut.displacementStrength = Falloff(vertexOut.distance)

C18_Witness ==
  /\ uPointerMinRad < vertexOut.distance
  /\ vertexOut.distance < uPointerMaxRad
  /\ vertexOut.displacementStrength > 0
  /\ vertexOut.displacementStrength < Falloff(uPointerMinRad)

\* C19: a point whose distance to the pointer is at least maxRad is not
\* displaced: the repulsion term is zero, and so is the pulse term, whatever
\* uTime is; with the pointer at the sentinel every point of the scene is at
\* such a distance.
C19_NoRepulsionBeyondMaxRad ==
  /\ vertexOut.distance >= uPointerMaxRad =>
       /\ vertexOut.repulsion = <<0, 0, 0>>
       /\ vertexOut.pulse = <<0, 0, 0>>
       /\ vertexOut.vertexPosition = vertexIn.position
  /\ vertexIn.pointer = DisabledPointer =>
       vertexOut.distance >= uPointerMaxRad

C19_Witness ==
  /\ vertexIn.pointer = Hit1.point
  /\ vertexOut.distance = uPointerMaxRad
  /\ uPointerMinRad < uPointerMaxRad
  /\ Sin(vertexIn.time) = ONE
  /\ vertexOut.vertexPosition = vertexIn.position

(***************************************************************************)
(* The ModelManager on its own: a configuration of models by breakpoint, a *)
(* window of some width, then resizes of the window                        *)
(***************************************************************************)
ModelInit ==
  /\ SimIdle
  /\ VertexIdle
  /\ MainIdle
  /\ \E set \in SUBSET Breakpoints, width \in 0..MaxWidth :
       modelManager = NewModelManager(set \cup {DEFAULT_MODEL_BREAKPOINT},
                                      width)

\* The window is resized: #boundHandleResize calls ModelManager.update()
WindowResize ==
  /\ \E width \in 0..MaxWidth :
       modelManager' = ModelManagerUpdate(modelManager, width)
  /\ UNCHANGED <<dracoUrl, isDebuggingConfig, debug, mounted, instances,
                 sims, latestPending, stalePending, cancelled,
                 resizeListener, main, disposals, lastFrame, afterDispose,
                 simVars, vertexVars>>

ModelNext == WindowResize

ModelSpec == ModelInit /\ [][ModelNext]_vars

\* The configured breakpoints that are not above the window width
Qualified ==
  {b \in DOMAIN modelManager.models : b <= modelManager.innerWidth}

\* The current breakpoint is the greatest qualified one, and the current
\* model is its model
Selected ==
  /\ modelManager.currentBreakpoint \in Qualified
  /\ \A b \in Qualified : b <= modelManager.currentBreakpoint
  /\ Qualified = {0} => modelManager.currentBreakpoint = 0
  /\ modelManager.currentModel =
       modelManager.models[modelManager.currentBreakpoint]

(***************************************************************************)
(* C25: ModelManager.update selects the greatest configured breakpoint     *)
(* that is not above the window width (0 when no other qualifies), makes   *)
(* that breakpoint's model the current model, and returns true exactly     *)
(* when the selected breakpoint differs from the one selected before       *)
(***************************************************************************)
C25_UpdateSelects ==
  /\ []Selected
  /\ [][/\ Selected'
        /\ modelManager'.updated <=>
             (modelManager'.currentBreakpoint
                # modelManager.currentBreakpoint)]_vars

C25_Witness ==
  /\ ~modelManager.updated
  /\ Cardinality(DOMAIN modelManager.models) = 3
  /\ modelManager.currentBreakpoint = 3
  /\ modelManager.innerWidth = 4
  /\ modelManager.currentModel = ModelOf(3)

\* The latest compute step took the reset branch for texel k, which now
\* holds the base position and life 0
AtBaseNewborn(k) ==
  /\ resetFlags[k]
  /\ \A c \in 1..3 : StateTexture[k][c] = textures[uBaseDataTexture][k][c]
  /\ StateTexture[k][4] = 0

(***************************************************************************)
(* C21: with lifeDecay > 0 and frames that keep arriving with a positive   *)
(* delta, every particle is reset infinitely often: again and again it is  *)
(* returned to its base position with life 0                               *)
(***************************************************************************)
C21_ResetInfinitelyOften ==
  \A k \in 0..(MaxVertices - 1) :
    []<>((points /\ lifeDecay > 0 /\ k < Vertices) => AtBaseNewborn(k))

C21_Witness ==
  /\ points
  /\ lifeDecay > 0
  /\ steps = MaxSteps
  /\ Vertices > 1
  /\ \A k \in 0..(Vertices - 1) : AtBaseNewborn(k)

\* Drawn vertex i has gl_PointSize 0, whatever its size attribute, the
\* point size of the material and its depth
Invisible(i) ==
  \A uPointSize \in PointSizes, aPointSize \in APointSizes, depth \in Depths :
    GlPointSize(uPointSize, aPointSize, PointLife(i), depth) = 0

\* The vertices of the last draw that fetched from a position texture
Drawn == IF uPointPositionTexture = NoTexture THEN {} ELSE DOMAIN sampled

(***************************************************************************)
(* C22: the size fade factor is 0 at life = 0 and at life >= 1.0, so a     *)
(* vertex drawn from a texel with such a life has point size 0; in the     *)
(* frame whose compute step resets a particle the particle is drawn with   *)
(* size 0, and so it was in the draw before                                *)
(***************************************************************************)
C22_ResetInvisible ==
  [][ReadyFrame =>
       \A i \in Drawn' :
         /\ (PointLife(i)' = 0 \/ PointLife(i)' >= ONE) =>
              /\ SizeFade(PointLife(i)') = 0
              /\ Invisible(i)'
         /\ resetFlags'[sampled'[i]] =>
              /\ PointLife(i)' = 0
              /\ Invisible(i)'
              /\ i \in Drawn => (PointLife(i) >= ONE /\ Invisible(i))]_vars

C22_Witness ==
  /\ steps > 1
  /\ \E i \in Drawn, j \in Drawn :
       /\ resetFlags[sampled[i]]
       /\ Invisible(i)
       /\ ~resetFlags[sampled[j]]
       /\ ~Invisible(j)

\* The frame callback ran the operation
Logged(log, op) == \E j \in DOMAIN log : log[j] = op

(***************************************************************************)
(* C23: a frame callback runs the compute step and writes the uniforms of  *)
(* the points only when, at its start, model.points exists and the hook    *)
(* has attached uTime; every change of uTime or uPointer leaves a state in *)
(* which the uniform exists                                                *)
(***************************************************************************)
C23_GuardedWrites ==
  [][/\ (Logged(frameLog', "compute") \/ Logged(frameLog', "pointer")) =>
          (points /\ uTimeAttached)
     /\ (steps' # steps \/ gpuTime' # gpuTime
            \/ currentTextureIndex' # currentTextureIndex) =>
          (points /\ uTimeAttached)
     /\ (pointTime' # pointTime \/ uPointer' # uPointer) =>
          (points' /\ uTimeAttached')]_vars

C23_Witness ==
  /\ points
  /\ uTimeAttached
  /\ elapsed > 0
  /\ steps = 0
  /\ frameLog = <<"render">>
  /\ uPointer = DisabledPointer
  /\ pointTime = 0

(***************************************************************************)
(* C24: between one initialization and the next dispose the debug          *)
(* settings are created at most once: the pane of the running instance     *)
(* holds at most one folder of each title, whenever the key 'd' was        *)
(* pressed                                                                 *)
(***************************************************************************)
C24_DebugSettingsOnce ==
  main = "running" =>
    \A title \in DOMAIN debug.folders : debug.folders[title] <= 1

\* An #init run with nothing live: no GPGPU renderer, points geometry or
\* material that dispose() has not released, nothing in the scene
HoldsNothing(sim) ==
  /\ sim.gpGpu # "live"
  /\ sim.geometry # "live"
  /\ sim.material # "live"
  /\ ~sim.inScene

(***************************************************************************)
(* C26: a load that settles after dispose() creates nothing that is left   *)
(* undisposed: once dispose() has run for an #init run, whether its loads  *)
(* settled before or after, that run holds no live GPGPU renderer, points  *)
(* geometry or material, and nothing of it is in a scene                   *)
(***************************************************************************)
C26_LateLoadCreatesNothing ==
  \A g \in 1..Len(sims) :
    (g < Len(sims) \/ main = "disposed") => HoldsNothing(sims[g])

(***************************************************************************)
(* C27: dispose() of Main never throws, whether or not loader.dracoUrl is  *)
(* given: once it was called, every step of it has run, so the debug pane  *)
(* is disposed and the resize listener is removed unless #init has run     *)
(* again since                                                             *)
(***************************************************************************)
C27_DisposeCompletes ==
  /\ main # "threw"
  /\ (disposals > 0 /\ main # "running") =>
       (~resizeListener /\ debug.pane = "disposed")

(***************************************************************************)
(* C28: at most one keydown handler of the instance is attached at any     *)
(* moment, and none once dispose() has returned                            *)
(***************************************************************************)
C28_OneKeydownHandler ==
  /\ debug.keydown <= 1
  /\ main = "disposed" => debug.keydown = 0

(***************************************************************************)
(* C29: at most one animation-frame request of the instance is pending at  *)
(* any moment: no request is made while the one before is still pending,   *)
(* and once dispose() was called and #init has not run again, none is      *)
(* pending                                                                 *)
(***************************************************************************)
C29_OnePendingRequest ==
  /\ stalePending = 0
  /\ main # "running" => ~latestPending

C29_Witness ==
  /\ Len(sims) = MaxInits
  /\ main = "running"
  /\ cancelled > 0
  /\ latestPending
  /\ lastFrame.request

(***************************************************************************)
(* C30: through the hook every instance is disposed exactly once:          *)
(* dispose() is never called twice on one instance, and after the unmount  *)
(* every instance that was created has been disposed                       *)
(***************************************************************************)
C30_DisposedExactlyOnce ==
  \A i \in DOMAIN instances :
    /\ instances[i].disposeCalls <= 1
    /\ (~mounted \/ i < Len(instances)) => instances[i].disposeCalls = 1

=============================================================================
